---- MODULE Spec2Model ----
(***************************************************************************)
(* Canonical Huffman encoder (src/src/encoder.cpp).                        *)
(*                                                                         *)
(* One run of create_compressed_file on one input file: the output file    *)
(* is opened, the frequencies are extracted, the tree is built by the      *)
(* merge loop, the raw codes are read off the tree and sorted, the         *)
(* canonical codes are assigned, the header and the content are bit-packed *)
(* and both are written.  A char is an integer (its value as a signed      *)
(* char), a bit is 0 or 1, a std::string of '0'/'1' is a sequence of bits, *)
(* a std::vector<char> of packed bytes is a sequence over 0..255.          *)
(***************************************************************************)
EXTENDS Integers, Sequences, FiniteSets, TLC

\* ------------------------------------------------------------------ bounds
\* Longest input file, in bytes.
MaxLen == 3

\* --------------------------------------------------- constants (encoder.hpp)
\* Declared in encoder.hpp; the values follow the uses in encoder.cpp: '\0' marks a node without a symbol (line 66), so the
\* first supported character is above it; the end-of-text symbol and the
\* new-line character are supported characters with a header field.
FIRST_CHARACTER == 1
END_OF_TEXT == 3
NEW_LINE == 10
SUPPORTED_CHARACTERS == 128
MAX_BITS == 8

\* A count is a uint32_t: it wraps at 2^32 characters, beyond any input of
\* MaxLen bytes, so counts are plain naturals here.

\* The bytes an input file is made of: one below FIRST_CHARACTER, the byte
\* whose value is END_OF_TEXT, the line terminator, and three letters.
InputBytes == {0, END_OF_TEXT, NEW_LINE, 97, 98, 99}

\* The characters the header has a field for (the loop of line 136).
Alphabet == FIRST_CHARACTER .. (SUPPORTED_CHARACTERS - 1)

\* ----------------------------------------------------------------- helpers
RECURSIVE SeqsUpTo(_, _)
SeqsUpTo(S, n) ==
    IF n = 0 THEN {<<>>}
    ELSE LET shorter == SeqsUpTo(S, n - 1)
         IN shorter \cup {Append(s, x) : s \in {t \in shorter : Len(t) = n - 1}, x \in S}

RECURSIVE Pow2(_)
Pow2(n) == IF n = 0 THEN 1 ELSE 2 * Pow2(n - 1)

RECURSIVE Zeros(_)
Zeros(n) == IF n <= 0 THEN <<>> ELSE <<0>> \o Zeros(n - 1)

\* Value of a bit string read most-significant bit first: std::stoi(s, nullptr, 2).
RECURSIVE stoi2(_)
stoi2(bits) ==
    IF bits = <<>> THEN 0
    ELSE 2 * stoi2(SubSeq(bits, 1, Len(bits) - 1)) + bits[Len(bits)]

\* std::bitset<n>(value).to_string(): the n low bits of value, most significant first.
RECURSIVE to_string(_, _)
to_string(value, n) ==
    IF n = 0 THEN <<>>
    ELSE Append(to_string(value \div 2, n - 1), value % 2)

\* (uint32_t) std::log2(n) for n >= 1.
RECURSIVE log2(_)
log2(n) == IF n <= 1 THEN 0 ELSE 1 + log2(n \div 2)

\* ---------------------------------------------------- reading the input
\* Index of the first NEW_LINE of s, 0 when there is none.
FirstNewLine(s) ==
    IF \E i \in 1..Len(s) : s[i] = NEW_LINE
    THEN CHOOSE i \in 1..Len(s) : s[i] = NEW_LINE /\ \A j \in 1..(i - 1) : s[j] # NEW_LINE
    ELSE 0

\* The lines std::getline yields until it fails: each stops before its
\* terminator; a last line without terminator is yielded when it is not empty.
RECURSIVE getline(_)
getline(s) ==
    IF s = <<>> THEN <<>>
    ELSE LET i == FirstNewLine(s)
         IN IF i = 0 THEN <<s>>
            ELSE <<SubSeq(s, 1, i - 1)>> \o getline(SubSeq(s, i + 1, Len(s)))

\* The characters both passes visit: for each line, line + NEW_LINE.
RECURSIVE Characters(_)
Characters(lines) ==
    IF lines = <<>> THEN <<>>
    ELSE Append(Head(lines), NEW_LINE) \o Characters(Tail(lines))

\* ------------------------------------------------- extract_frequencies
\* The counting loop.  The map is constructed with a bucket count and no
\* entries; operator[] creates an entry, at zero, when a character is first
\* counted.  A character below FIRST_CHARACTER throws.
RECURSIVE count_characters(_, _)
count_characters(chars, frequencies) ==
    IF chars = <<>> THEN [thrown |-> FALSE, frequencies |-> frequencies]
    ELSE LET character == Head(chars)
         IN IF character < FIRST_CHARACTER
            THEN [thrown |-> TRUE, frequencies |-> frequencies]
            ELSE LET old == IF character \in DOMAIN frequencies
                            THEN frequencies[character] ELSE 0
                     new == [c \in (DOMAIN frequencies) \cup {character} |->
                                IF c = character THEN old + 1
                                ELSE frequencies[c]]
                 IN count_characters(Tail(chars), new)

\* extract_frequencies without line 21: END_OF_TEXT is not counted.
count_end_of_text_missing(frequencies) == frequencies

\* After the loop: frequencies[END_OF_TEXT]++.
count_end_of_text(frequencies) ==
    LET old == IF END_OF_TEXT \in DOMAIN frequencies THEN frequencies[END_OF_TEXT] ELSE 0
    IN [c \in (DOMAIN frequencies) \cup {END_OF_TEXT} |->
           IF c = END_OF_TEXT THEN old + 1 ELSE frequencies[c]]

extract_frequencies(input) ==
    LET counted == count_characters(Characters(getline(input)), <<>>)
    IN IF counted.thrown THEN counted
       ELSE [thrown |-> FALSE, frequencies |-> count_end_of_text(counted.frequencies)]

\* --------------------------------------------------- build_huffman_tree
\* A Node: symbol (0 is '\0', no symbol), frequency, and the two children,
\* both indices into the heap of allocated nodes, 0 for a null pointer.
Node(symbol, frequency) ==
    [symbol |-> symbol, frequency |-> frequency, left |-> 0, right |-> 0]

\* The nodes pushed by the loop of lines 29-30, one per entry of the table.
RECURSIVE push_nodes(_, _)
push_nodes(frequencies, symbols) ==
    IF symbols = {} THEN <<>>
    ELSE LET symbol == CHOOSE s \in symbols : \A t \in symbols : s <= t
         IN <<Node(symbol, frequencies[symbol])>>
                \o push_nodes(frequencies, symbols \ {symbol})

\* nodes.top() of the min-priority queue: a node of least frequency; which
\* one among equals is left to the queue.
is_top(heap, nodes, n) ==
    /\ n \in nodes
    /\ \A m \in nodes : heap[n].frequency <= heap[m].frequency

\* A parent that takes the frequency of its first child alone.
parent_of_first_frequency(heap, first, second) ==
    [symbol |-> 0, frequency |-> heap[first].frequency,
     left |-> first, right |-> second]

\* The parent made of the two nodes taken from the queue (lines 38-41).
parent(heap, first, second) ==
    [symbol |-> 0,
     frequency |-> heap[first].frequency + heap[second].frequency,
     left |-> first, right |-> second]

\* ----------------------------------------------- generate_huffman_codes
\* The traversal of lines 52-68: every node reached with the code of its
\* path, '0' to the left and '1' to the right; a node whose symbol is not
\* '\0' is recorded.
RECURSIVE traverse(_, _, _)
traverse(heap, n, code) ==
    LET current == heap[n]
    IN (IF current.left # 0 THEN traverse(heap, current.left, Append(code, 0)) ELSE {})
       \cup (IF current.right # 0 THEN traverse(heap, current.right, Append(code, 1)) ELSE {})
       \cup (IF current.symbol # 0 THEN {<<current.symbol, code>>} ELSE {})

\* A comparison that puts, among codes of one size, the greater symbol first.
code_less_greater_symbol_first(left, right) ==
    IF Len(left[2]) = Len(right[2]) THEN left[1] > right[1]
    ELSE Len(left[2]) < Len(right[2])

\* The comparison of the sort (lines 70-76).
code_less(left, right) ==
    IF Len(left[2]) = Len(right[2]) THEN left[1] < right[1]
    ELSE Len(left[2]) < Len(right[2])

RECURSIVE sort_codes(_)
sort_codes(codes) ==
    IF codes = {} THEN <<>>
    ELSE LET least == CHOOSE c \in codes : \A d \in codes \ {c} : code_less(c, d)
         IN <<least>> \o sort_codes(codes \ {least})

generate_huffman_codes(heap, root) == sort_codes(traverse(heap, root, <<>>))

\* ------------------------------------------------------------ next_binary
flip(bit) == IF bit = 0 THEN 1 ELSE 0

\* The loop of lines 88-97, index and carry as in the code.
RECURSIVE next_binary_loop(_, _, _)
next_binary_loop(number, index, carry) ==
    IF index > 1 + carry THEN number
    ELSE IF carry > 0 /\ index > Len(number)
         THEN next_binary_loop(<<1>> \o number, index + 1, carry - 1)
         ELSE LET at == Len(number) - index + 1
                  last == number[at]
              IN next_binary_loop([number EXCEPT ![at] = flip(last)], index + 1,
                                  IF last = 1 THEN carry + 1 ELSE carry)

\* A successor that flips the last bit and carries nothing.
next_binary_without_carry(number) ==
    [number EXCEPT ![Len(number)] = flip(number[Len(number)])]

next_binary(number) == next_binary_loop(number, 1, 0)

\* --------------------------------------------- generate_canonical_codes
\* A canonical code left as the successor gave it, without line 114.
pad_code_missing(code, size) == code

\* Line 114: zeros are appended while the code is shorter than the raw code.
pad_code(code, size) == code \o Zeros(size - Len(code))

\* The codes in the order of huffman_codes: zeros for the front element
\* (lines 105-109), then the successor of the last code, padded (110-118).
RECURSIVE canonical_list(_, _)
canonical_list(huffman_codes, index) ==
    IF index = 1 THEN <<Zeros(Len(huffman_codes[1][2]))>>
    ELSE LET before == canonical_list(huffman_codes, index - 1)
             last_code == before[index - 1]
         IN Append(before, pad_code(next_binary(last_code), Len(huffman_codes[index][2])))

generate_canonical_codes(huffman_codes) ==
    LET list == canonical_list(huffman_codes, Len(huffman_codes))
    IN [symbol \in {huffman_codes[i][1] : i \in 1..Len(huffman_codes)} |->
           list[CHOOSE i \in 1..Len(huffman_codes) : huffman_codes[i][1] = symbol]]

\* code_table[character]: operator[] yields the empty string for a character
\* without an entry.
code_of(code_table, character) ==
    IF character \in DOMAIN code_table THEN code_table[character] ELSE <<>>

\* --------------------------------------------------- encode_codes_length
\* Lines 127-131.
largest_code_length(code_table) ==
    IF DOMAIN code_table = {} THEN 0
    ELSE LET sizes == {Len(code_table[s]) : s \in DOMAIN code_table}
         IN CHOOSE m \in sizes : \A k \in sizes : k <= m

\* Line 138: the bit_count low bits of the MAX_BITS-bit form of the length.
length_field(code_length, bit_count) ==
    SubSeq(to_string(code_length, MAX_BITS), MAX_BITS - bit_count + 1, MAX_BITS)

\* The bits the loop of lines 136-146 puts through the buffer: the fields
\* of the characters FIRST_CHARACTER, FIRST_CHARACTER + 1, ... one after the
\* other, bit i belonging to the field of character FIRST_CHARACTER + (i-1) \div bit_count.
header_bits(code_table, bit_count) ==
    [i \in 1..((SUPPORTED_CHARACTERS - FIRST_CHARACTER) * bit_count) |->
        length_field(Len(code_of(code_table, FIRST_CHARACTER + ((i - 1) \div bit_count))),
                     bit_count)[((i - 1) % bit_count) + 1]]

\* The buffer discipline of lines 140-151 (and of encode_content): a byte is
\* pushed each time the buffer holds 8 bits, and a last partial buffer is
\* filled with '0' and pushed.  Byte k holds the bits 8k-7 .. 8k.
pack(bits) ==
    [k \in 1..((Len(bits) + 7) \div 8) |->
        IF 8 * k <= Len(bits)
        THEN stoi2(SubSeq(bits, 8 * k - 7, 8 * k))
        ELSE stoi2(SubSeq(bits, 8 * k - 7, Len(bits)) \o Zeros(8 * k - Len(bits)))]

\* The vector returned for a given bit_count: the width byte, then the fields.
encode_codes_length(code_table, bit_count) ==
    <<bit_count>> \o pack(header_bits(code_table, bit_count))

\* The table after the call: operator[] of line 137 has created an entry,
\* the empty string, for every character of the alphabet that had none.
table_after_header(code_table) ==
    [c \in (DOMAIN code_table) \cup Alphabet |-> code_of(code_table, c)]

\* --------------------------------------------------------- encode_content
\* A loop body that pushes the byte and does not clear the buffer.
put_bit_without_clear(buffer, output, bit) ==
    LET joined == Append(buffer, bit)
    IN IF Len(joined) % 8 # 0
       THEN [buffer |-> joined, output |-> output]
       ELSE [buffer |-> joined, output |-> Append(output, stoi2(joined))]

\* One pass of the loop body of lines 166-169 (175-178): the bit joins the
\* buffer, and a buffer of 8 bits is pushed as a byte and cleared.
put_bit(buffer, output, bit) ==
    LET joined == Append(buffer, bit)
    IN IF Len(joined) % 8 # 0
       THEN [buffer |-> joined, output |-> output]
       ELSE [buffer |-> <<>>, output |-> Append(output, stoi2(joined))]

\* Lines 181-184: a partial buffer is filled with '0' and pushed.
put_padding(buffer, output) ==
    IF Len(buffer) % 8 # 0
    THEN Append(output, stoi2(buffer \o Zeros(8 - (Len(buffer) % 8))))
    ELSE output

\* ------------------------------------------------------------------ state
VARIABLES
    pc,               \* where create_compressed_file stands
    input,            \* the bytes of the input file
    output_file,      \* the file <path>.hf: whether it exists, and its bytes
    error,            \* the exception that left create_compressed_file
    frequencies,      \* the table returned by extract_frequencies
    heap,             \* the nodes built so far, a child being an index
    nodes,            \* the priority queue of build_huffman_tree
    tree,             \* the root returned by build_huffman_tree
    huffman_codes,    \* the sorted (symbol, raw code) list
    canonical_codes,  \* the canonical code table
    encoded_codes,    \* the vector returned by encode_codes_length
    encoded_content,  \* the output vector of encode_content
    buffer,           \* the bit buffer of encode_content
    at_character,     \* encode_content: characters of the input done
    at_bit            \* encode_content: bits of the current code done

vars == <<pc, input, output_file, error, frequencies, heap, nodes, tree,
          huffman_codes, canonical_codes, encoded_codes, encoded_content,
          buffer, at_character, at_bit>>

\* The characters of the input, as both passes read them.
InputCharacters == Characters(getline(input))

Init ==
    /\ pc = "start"
    /\ input \in SeqsUpTo(InputBytes, MaxLen)
    /\ output_file = [exists |-> FALSE, bytes |-> <<>>]
    /\ error = "none"
    /\ frequencies = <<>>
    /\ heap = <<>>
    /\ nodes = {}
    /\ tree = 0
    /\ huffman_codes = <<>>
    /\ canonical_codes = <<>>
    /\ encoded_codes = <<>>
    /\ encoded_content = <<>>
    /\ buffer = <<>>
    /\ at_character = 0
    /\ at_bit = 0

\* Lines 190-191: the output stream is opened, which creates the file or
\* empties it, before anything is read.
OpenFiles ==
    /\ pc = "start"
    /\ output_file' = [exists |-> TRUE, bytes |-> <<>>]
    /\ pc' = "opened"
    /\ UNCHANGED <<input, error, frequencies, heap, nodes, tree, huffman_codes,
                   canonical_codes, encoded_codes, encoded_content, buffer,
                   at_character, at_bit>>

\* Line 193: extract_frequencies; its exception leaves create_compressed_file.
ExtractFrequencies ==
    /\ pc = "opened"
    /\ LET result == extract_frequencies(input)
       IN IF result.thrown
          THEN /\ error' = "invalid_argument"
               /\ pc' = "failed"
               /\ UNCHANGED frequencies
          ELSE /\ frequencies' = result.frequencies
               /\ pc' = "counted"
               /\ UNCHANGED error
    /\ UNCHANGED <<input, output_file, heap, nodes, tree, huffman_codes,
                   canonical_codes, encoded_codes, encoded_content, buffer,
                   at_character, at_bit>>

\* Lines 27-30: one node per entry of the table enters the queue.
PushNodes ==
    /\ pc = "counted"
    /\ heap' = push_nodes(frequencies, DOMAIN frequencies)
    /\ nodes' = 1..Cardinality(DOMAIN frequencies)
    /\ pc' = "merging"
    /\ UNCHANGED <<input, output_file, error, frequencies, tree, huffman_codes,
                   canonical_codes, encoded_codes, encoded_content, buffer,
                   at_character, at_bit>>

\* Lines 32-44, one pass of the loop: the two tops leave the queue and their
\* parent enters it.
Merge ==
    /\ pc = "merging"
    /\ Cardinality(nodes) > 1
    /\ \E first \in nodes :
         /\ is_top(heap, nodes, first)
         /\ \E second \in nodes \ {first} :
              /\ is_top(heap, nodes \ {first}, second)
              /\ heap' = Append(heap, parent(heap, first, second))
              /\ nodes' = (nodes \ {first, second}) \cup {Len(heap) + 1}
    /\ UNCHANGED <<pc, input, output_file, error, frequencies, tree,
                   huffman_codes, canonical_codes, encoded_codes,
                   encoded_content, buffer, at_character, at_bit>>

\* Line 46: the loop is over, the node left is the root.
ReturnTree ==
    /\ pc = "merging"
    /\ Cardinality(nodes) <= 1
    /\ tree' = CHOOSE n \in nodes : TRUE
    /\ pc' = "built"
    /\ UNCHANGED <<input, output_file, error, frequencies, heap, nodes,
                   huffman_codes, canonical_codes, encoded_codes,
                   encoded_content, buffer, at_character, at_bit>>

\* Line 196.
GenerateHuffmanCodes ==
    /\ pc = "built"
    /\ huffman_codes' = generate_huffman_codes(heap, tree)
    /\ pc' = "coded"
    /\ UNCHANGED <<input, output_file, error, frequencies, heap, nodes, tree,
                   canonical_codes, encoded_codes, encoded_content, buffer,
                   at_character, at_bit>>

\* Line 197 (and the rewind of lines 199-200).
GenerateCanonicalCodes ==
    /\ pc = "coded"
    /\ canonical_codes' = generate_canonical_codes(huffman_codes)
    /\ pc' = "canonical"
    /\ UNCHANGED <<input, output_file, error, frequencies, heap, nodes, tree,
                   huffman_codes, encoded_codes, encoded_content, buffer,
                   at_character, at_bit>>

\* The values bit_count may take.  With a code in the table, line 132 gives
\* floor(log2(largest)) + 1.  With no code longer than 0, std::log2(0) is
\* -infinity and its conversion to uint32_t is undefined: any width.
BitCounts(code_table) ==
    IF largest_code_length(code_table) >= 1
    THEN {log2(largest_code_length(code_table)) + 1}
    ELSE 0..(MAX_BITS + 1)

\* Line 202: encode_codes_length.  A bit_count above MAX_BITS makes the
\* substr of line 138 start past the end of the string: std::out_of_range.
EncodeCodesLength ==
    /\ pc = "canonical"
    /\ \E bit_count \in BitCounts(canonical_codes) :
         IF bit_count > MAX_BITS
         THEN /\ error' = "out_of_range"
              /\ pc' = "failed"
              /\ UNCHANGED <<encoded_codes, canonical_codes>>
         ELSE /\ encoded_codes' = encode_codes_length(canonical_codes, bit_count)
              /\ canonical_codes' = table_after_header(canonical_codes)
              /\ pc' = "content"
              /\ UNCHANGED error
    /\ at_character' = 1
    /\ at_bit' = 0
    /\ UNCHANGED <<input, output_file, frequencies, heap, nodes, tree,
                   huffman_codes, encoded_content, buffer>>

\* Lines 162-172, one bit of the code of one character of a line (a
\* character whose code is empty adds nothing).
EncodeCharacter ==
    /\ pc = "content"
    /\ at_character <= Len(InputCharacters)
    /\ LET code == code_of(canonical_codes, InputCharacters[at_character])
       IN IF at_bit < Len(code)
          THEN LET put == put_bit(buffer, encoded_content, code[at_bit + 1])
               IN /\ buffer' = put.buffer
                  /\ encoded_content' = put.output
                  /\ IF at_bit + 1 < Len(code)
                     THEN at_bit' = at_bit + 1 /\ UNCHANGED at_character
                     ELSE at_bit' = 0 /\ at_character' = at_character + 1
          ELSE /\ at_character' = at_character + 1
               /\ UNCHANGED <<buffer, encoded_content, at_bit>>
    /\ UNCHANGED <<pc, input, output_file, error, frequencies, heap, nodes, tree,
                   huffman_codes, canonical_codes, encoded_codes>>

\* std::getline fails: the loop of line 162 is left.
EndOfInput ==
    /\ pc = "content"
    /\ at_character > Len(InputCharacters)
    /\ pc' = "end_of_text"
    /\ UNCHANGED <<input, output_file, error, frequencies, heap, nodes, tree,
                   huffman_codes, canonical_codes, encoded_codes,
                   encoded_content, buffer, at_character, at_bit>>

\* Lines 174-179, one bit of the code of END_OF_TEXT.
EncodeEndOfText ==
    /\ pc = "end_of_text"
    /\ at_bit < Len(code_of(canonical_codes, END_OF_TEXT))
    /\ LET put == put_bit(buffer, encoded_content,
                          code_of(canonical_codes, END_OF_TEXT)[at_bit + 1])
       IN /\ buffer' = put.buffer
          /\ encoded_content' = put.output
    /\ at_bit' = at_bit + 1
    /\ UNCHANGED <<pc, input, output_file, error, frequencies, heap, nodes, tree,
                   huffman_codes, canonical_codes, encoded_codes, at_character>>

\* Lines 181-186: the padding, and the return.
PadContent ==
    /\ pc = "end_of_text"
    /\ at_bit >= Len(code_of(canonical_codes, END_OF_TEXT))
    /\ encoded_content' = put_padding(buffer, encoded_content)
    /\ pc' = "encoded"
    /\ UNCHANGED <<input, output_file, error, frequencies, heap, nodes, tree,
                   huffman_codes, canonical_codes, encoded_codes, buffer,
                   at_character, at_bit>>

\* Lines 205-209: the header bytes, then the content bytes.
WriteOutput ==
    /\ pc = "encoded"
    /\ output_file' = [exists |-> TRUE, bytes |-> encoded_codes \o encoded_content]
    /\ pc' = "done"
    /\ UNCHANGED <<input, error, frequencies, heap, nodes, tree, huffman_codes,
                   canonical_codes, encoded_codes, encoded_content, buffer,
                   at_character, at_bit>>

Next ==
    \/ OpenFiles
    \/ ExtractFrequencies
    \/ PushNodes
    \/ Merge
    \/ ReturnTree
    \/ GenerateHuffmanCodes
    \/ GenerateCanonicalCodes
    \/ EncodeCodesLength
    \/ EncodeCharacter
    \/ EndOfInput
    \/ EncodeEndOfText
    \/ PadContent
    \/ WriteOutput

Spec == Init /\ [][Next]_vars

\* ======================================================================
\* Properties
\* ======================================================================
Symbols(codes) == {codes[i][1] : i \in 1..Len(codes)}

IsPrefix(a, b) == Len(a) <= Len(b) /\ SubSeq(b, 1, Len(a)) = a

\* Number of indices of a sequence whose element is x.
Occurrences(seq, x) == Cardinality({i \in 1..Len(seq) : seq[i] = x})

\* The run has read the whole input without an unsupported character.
Counted == pc \notin {"start", "opened", "failed"} \/ error = "out_of_range"

\* ---------------------------------------------------------------- C6
\* C6 as stated: the table returned by extract_frequencies has an entry for
\* every character of the supported alphabet and a nonzero count for
\* END_OF_TEXT, and build_huffman_tree makes one leaf per alphabet character.
C6_TableHasWholeAlphabet ==
    /\ Counted =>
          /\ Alphabet \subseteq DOMAIN frequencies
          /\ frequencies[END_OF_TEXT] > 0
    /\ pc = "merging" =>
          {heap[n].symbol : n \in {m \in 1..Len(heap) : heap[m].left = 0}} = Alphabet

\* C6 amended: the table has an entry exactly for the characters read (each
\* line's characters and its appended NEW_LINE) and for END_OF_TEXT; each
\* count is the number of times the character was read, one more for
\* END_OF_TEXT, so every count is nonzero; and build_huffman_tree makes
\* exactly one leaf per entry of the table, with the entry's count.
C6_TableHasCharactersRead ==
    /\ Counted =>
          /\ DOMAIN frequencies =
                {InputCharacters[i] : i \in 1..Len(InputCharacters)} \cup {END_OF_TEXT}
          /\ \A c \in DOMAIN frequencies :
                /\ frequencies[c] =
                      Occurrences(InputCharacters, c) + (IF c = END_OF_TEXT THEN 1 ELSE 0)
                /\ frequencies[c] > 0
    /\ pc \in {"merging", "built"} =>
          LET leaves == {n \in 1..Len(heap) : heap[n].left = 0 /\ heap[n].right = 0}
          IN /\ Cardinality(leaves) = Cardinality(DOMAIN frequencies)
             /\ \A c \in DOMAIN frequencies :
                   \E n \in leaves : heap[n] = Node(c, frequencies[c])

\* A table without most of the alphabet, one character read twice, the
\* END_OF_TEXT byte read from the input and counted once more, leaves made.
C6_Witness ==
    /\ pc = "merging"
    /\ Len(heap) = 3
    /\ DOMAIN frequencies = {END_OF_TEXT, NEW_LINE, 97}
    /\ frequencies[END_OF_TEXT] = 2
    /\ frequencies[97] = 1

\* ---------------------------------------------------------------- C5
\* The weights of the table, as a sequence in ascending symbol order.
RECURSIVE Weights(_, _)
Weights(table, symbols) ==
    IF symbols = {} THEN <<>>
    ELSE LET symbol == CHOOSE s \in symbols : \A t \in symbols : s <= t
         IN <<table[symbol]>> \o Weights(table, symbols \ {symbol})

RECURSIVE SumSeq(_)
SumSeq(seq) == IF seq = <<>> THEN 0 ELSE Head(seq) + SumSeq(Tail(seq))

Without(seq, i, j) ==
    LET keep == {k \in 1..Len(seq) : k # i /\ k # j}
        nth(n) == CHOOSE k \in keep : Cardinality({m \in keep : m < k}) = n - 1
    IN [n \in 1..(Len(seq) - 2) |-> seq[nth(n)]]

\* The least weighted path length of a binary tree over the weights: every
\* such tree joins two of its subtrees last, so the least is taken over
\* every pair that may be joined first, not only the two lightest.
RECURSIVE LeastCost(_)
LeastCost(weights) ==
    IF Len(weights) <= 1 THEN 0
    ELSE LET pairs == {p \in (1..Len(weights)) \X (1..Len(weights)) : p[1] < p[2]}
             cost(p) == weights[p[1]] + weights[p[2]]
                        + LeastCost(Append(Without(weights, p[1], p[2]),
                                           weights[p[1]] + weights[p[2]]))
             costs == {cost(p) : p \in pairs}
         IN CHOOSE c \in costs : \A d \in costs : c <= d

\* Sum over the leaves of frequency times depth, the depth of a leaf being
\* the length of the path the traversal reaches it by.
RECURSIVE PathCost(_, _)
PathCost(table, paths) ==
    IF paths = {} THEN 0
    ELSE LET p == CHOOSE q \in paths : TRUE
         IN table[p[1]] * Len(p[2]) + PathCost(table, paths \ {p})

\* C5: for a table of n >= 2 entries, whichever of the equal-weight nodes
\* the queue returns, the merge loop ends after exactly n - 1 merges with one
\* node in the queue, the root; its weight is the sum of the frequencies;
\* every node made by a merge has two children; and the sum over the leaves
\* of frequency times depth is the least possible for the table.
C5_HuffmanOptimal ==
    (pc = "built" /\ Cardinality(DOMAIN frequencies) >= 2) =>
        LET n == Cardinality(DOMAIN frequencies)
            weights == Weights(frequencies, DOMAIN frequencies)
        IN /\ Len(heap) = n + (n - 1)
           /\ nodes = {tree}
           /\ heap[tree].frequency = SumSeq(weights)
           /\ \A k \in (n + 1)..Len(heap) :
                 /\ heap[k].symbol = 0
                 /\ heap[k].left \in 1..(k - 1)
                 /\ heap[k].right \in 1..(k - 1)
                 /\ heap[k].left # heap[k].right
           /\ \A k \in 1..n : heap[k].left = 0 /\ heap[k].right = 0
           /\ PathCost(frequencies, traverse(heap, tree, <<>>)) = LeastCost(weights)

\* A tree of five leaves of unequal depth, built over equal and unequal weights.
C5_Witness ==
    /\ pc = "built"
    /\ Cardinality(DOMAIN frequencies) = 5
    /\ \E p \in traverse(heap, tree, <<>>) : Len(p[2]) = 3
    /\ \E p \in traverse(heap, tree, <<>>) : Len(p[2]) = 2

\* ------------------------------------------------------- C2, C7, C10
\* generate_canonical_codes has returned, for a tree of two leaves or more.
Canonical ==
    /\ pc \in {"canonical", "content", "end_of_text", "encoded", "done"}
    /\ Len(huffman_codes) >= 2

\* C2: in the table returned by generate_canonical_codes for the list of
\* generate_huffman_codes, of any two distinct symbols with a code neither
\* code is a prefix of the other, nor equal to it.
C2_PrefixFree ==
    Canonical =>
        \A s \in Symbols(huffman_codes) : \A t \in Symbols(huffman_codes) \ {s} :
            ~IsPrefix(canonical_codes[s], canonical_codes[t])

\* Codes of two lengths and of equal length, all compared.
C2_Witness ==
    /\ pc = "canonical"
    /\ Len(huffman_codes) = 5
    /\ \E s, t \in Symbols(huffman_codes) :
          s # t /\ Len(canonical_codes[s]) = Len(canonical_codes[t])
    /\ \E s, t \in Symbols(huffman_codes) :
          Len(canonical_codes[s]) < Len(canonical_codes[t])

\* s comes before t in (length ascending, symbol ascending) order.
Before(s, t) ==
    LET ls == Len(canonical_codes[s])
        lt == Len(canonical_codes[t])
    IN ls < lt \/ (ls = lt /\ s < t)

\* C7: the first symbol in (length ascending, symbol ascending) order has
\* the all-zero code; for symbols s1, s2 with length(s1) < length(s2) the
\* value of code(s1) padded on the right with zeros to length(s2) is at most
\* the value of code(s2); among symbols of equal length the values of the
\* codes increase strictly with the symbol.
C7_CanonicalOrder ==
    Canonical =>
        LET symbols == Symbols(huffman_codes)
            first == CHOOSE s \in symbols : \A t \in symbols \ {s} : Before(s, t)
            code(s) == canonical_codes[s]
        IN /\ code(first) = Zeros(Len(code(first)))
           /\ \A s1, s2 \in symbols :
                 /\ Len(code(s1)) < Len(code(s2)) =>
                       stoi2(code(s1)) * Pow2(Len(code(s2)) - Len(code(s1)))
                           <= stoi2(code(s2))
                 /\ (Len(code(s1)) = Len(code(s2)) /\ s1 < s2) =>
                       stoi2(code(s1)) < stoi2(code(s2))

\* Three symbols of one length and a shorter one.
C7_Witness ==
    /\ pc = "canonical"
    /\ \E s \in Symbols(huffman_codes) : Len(canonical_codes[s]) = 1
    /\ Cardinality({s \in Symbols(huffman_codes) : Len(canonical_codes[s]) = 3}) >= 2
    /\ \E s \in Symbols(huffman_codes) : Len(canonical_codes[s]) = 2

\* C10: each symbol's canonical code has the length of its raw code; the
\* successor taken of every code but the last is as long as the code (no
\* carry past the most significant bit); the last code is all ones.
C10_LengthPreserved ==
    Canonical =>
        LET n == Len(huffman_codes)
            code(i) == canonical_codes[huffman_codes[i][1]]
        IN /\ \A i \in 1..n : Len(code(i)) = Len(huffman_codes[i][2])
           /\ \A i \in 1..(n - 1) : Len(next_binary(code(i))) = Len(code(i))
           /\ \A k \in 1..Len(code(n)) : code(n)[k] = 1

\* A list whose lengths grow twice on the way, the successor carrying
\* through trailing ones.
C10_Witness ==
    /\ pc = "canonical"
    /\ Len(huffman_codes) = 4
    /\ Len(huffman_codes[1][2]) = 1
    /\ Len(huffman_codes[2][2]) = 2
    /\ Len(huffman_codes[4][2]) = 3
    /\ canonical_codes[huffman_codes[4][1]] = <<1, 1, 1>>

\* ---------------------------------------------------------------- C9
\* Bit i of a sequence of bytes, the most significant bit of a byte first.
BitOf(bytes, i) == (bytes[((i - 1) \div 8) + 1] \div Pow2(7 - ((i - 1) % 8))) % 2

\* The bytes read most-significant bit first.
Unpack(bytes) == [i \in 1..(8 * Len(bytes)) |-> BitOf(bytes, i)]

\* The codes of the characters of a sequence, one after the other.
RECURSIVE CodeBits(_, _)
CodeBits(code_table, characters) ==
    IF characters = <<>> THEN <<>>
    ELSE code_of(code_table, Head(characters)) \o CodeBits(code_table, Tail(characters))

\* What encode_content has to emit: the codes of the characters of the
\* input in input order (each line's characters, then one NEW_LINE), then
\* the code of END_OF_TEXT.
ContentBits == CodeBits(canonical_codes, Append(InputCharacters, END_OF_TEXT))

\* The bits encode_content has emitted so far.
EmittedBits ==
    IF pc = "content"
    THEN CodeBits(canonical_codes, SubSeq(InputCharacters, 1, at_character - 1))
            \o SubSeq(code_of(canonical_codes, InputCharacters[at_character]), 1, at_bit)
    ELSE CodeBits(canonical_codes, InputCharacters)
            \o SubSeq(code_of(canonical_codes, END_OF_TEXT), 1, at_bit)

EmittedCodes ==
    [i \in 1..(Len(InputCharacters) + 1) |->
        code_of(canonical_codes, Append(InputCharacters, END_OF_TEXT)[i])]

\* C8: in the sequence of codes encode_content emits, the code of
\* END_OF_TEXT occurs exactly once, and it is the last one.
C8_EndOfTextOnce ==
    pc \in {"encoded", "done"} =>
        /\ Occurrences(EmittedCodes, code_of(canonical_codes, END_OF_TEXT)) = 1
        /\ EmittedCodes[Len(EmittedCodes)] = code_of(canonical_codes, END_OF_TEXT)

\* ---------------------------------------------------------------- C4
\* C4: when the input holds a character below FIRST_CHARACTER, the run ends
\* with the unsupported-character error and no output file has been
\* created or emptied.
C4_NoOutputFile ==
    (\E i \in 1..Len(InputCharacters) : InputCharacters[i] < FIRST_CHARACTER) =>
        /\ pc \notin {"counted", "merging", "built", "coded", "canonical", "content",
                      "end_of_text", "encoded", "done"}
        /\ pc = "failed" => (error = "invalid_argument" /\ ~output_file.exists)

\* ------------------------------------------------------------ a decoder
\* The width read from byte 0 of a header, and the length read for a
\* character: its field of that width, most significant bit first.
HeaderWidth(header) == header[1]

HeaderLength(header, character) ==
    LET w == HeaderWidth(header)
        at == 8 + (character - FIRST_CHARACTER) * w
    IN stoi2([k \in 1..w |-> BitOf(header, at + k)])

\* Number of bytes of a header of width w.
HeaderSize(w) == 1 + (((SUPPORTED_CHARACTERS - FIRST_CHARACTER) * w + 7) \div 8)

\* The canonical codes rebuilt from a table of lengths alone: the symbols
\* of nonzero length in (length, symbol) order, the first with code 0, each
\* next one with the previous code plus one, shifted left to its length.
RECURSIVE CodeValues(_, _, _, _)
CodeValues(lengths, symbols, value, length) ==
    IF symbols = {} THEN <<>>
    ELSE LET next == CHOOSE s \in symbols : \A t \in symbols \ {s} :
                         \/ lengths[s] < lengths[t]
                         \/ (lengths[s] = lengths[t] /\ s < t)
             shifted == value * Pow2(lengths[next] - length)
         IN <<[symbol |-> next, code |-> to_string(shifted, lengths[next])]>>
                \o CodeValues(lengths, symbols \ {next}, shifted + 1, lengths[next])

RebuiltCodes(lengths) ==
    CodeValues(lengths, {c \in DOMAIN lengths : lengths[c] > 0}, 0, 0)

\* The symbols read from the bits by the rebuilt codes, up to the first
\* END_OF_TEXT code; -1 marks bits that no code matches.
RECURSIVE ReadSymbols(_, _)
ReadSymbols(codes, bits) ==
    LET matching == {i \in 1..Len(codes) : IsPrefix(codes[i].code, bits)}
    IN IF matching = {} THEN <<-1>>
       ELSE LET i == CHOOSE j \in matching : TRUE
            IN IF codes[i].symbol = END_OF_TEXT THEN <<>>
               ELSE <<codes[i].symbol>>
                       \o ReadSymbols(codes, SubSeq(bits, Len(codes[i].code) + 1, Len(bits)))

\* The input a decoder recovers from the bytes of an output file.
Decoded(bytes) ==
    LET w == HeaderWidth(bytes)
        header == SubSeq(bytes, 1, HeaderSize(w))
        content == SubSeq(bytes, HeaderSize(w) + 1, Len(bytes))
        lengths == [c \in Alphabet |-> HeaderLength(header, c)]
    IN ReadSymbols(RebuiltCodes(lengths), Unpack(content))

\* ---------------------------------------------------------------- C1
\* C1: for every non-empty input without unsupported character, decoding
\* the output file gives back the input byte for byte, whether or not the
\* last line of the input ends with a line terminator.
C1_RoundTrip ==
    (pc = "done" /\ input # <<>>) => Decoded(output_file.bytes) = input

\* ---------------------------------------------------------------- C3
\* The header of encode_codes_length decodes to the table encode_content
\* uses: the width is floor(log2(max_length)) + 1, the field of every
\* character of the alphabet holds the length of its canonical code, which
\* is 0 for a character never read.
HeaderDecodes ==
    /\ Len(encoded_codes) = HeaderSize(HeaderWidth(encoded_codes))
    /\ \A c \in Alphabet :
          HeaderLength(encoded_codes, c) = Len(code_of(canonical_codes, c))
    /\ \A c \in Alphabet \ (DOMAIN frequencies) : HeaderLength(encoded_codes, c) = 0
    /\ \A c \in DOMAIN frequencies : 
          Len(huffman_codes) >= 2 => HeaderLength(encoded_codes, c) > 0

\* C3: for every input without unsupported character, encode_codes_length
\* returns a header, and it decodes to the code-length table.
C3_HeaderRoundTrip ==
    /\ pc = "failed" => error = "invalid_argument"
    /\ pc \in {"content", "end_of_text", "encoded", "done"} => HeaderDecodes

\* The same for the inputs that have a line: there the table has a code of
\* length 1 or more and the width is floor(log2(max_length)) + 1.
C3_HeaderRoundTripOfLines ==
    InputCharacters # <<>> =>
        /\ pc = "failed" => error = "invalid_argument"
        /\ pc \in {"content", "end_of_text", "encoded", "done"} =>
              /\ HeaderDecodes
              /\ HeaderWidth(encoded_codes)
                    = log2(largest_code_length(generate_canonical_codes(huffman_codes))) + 1

\* The round trip does hold for the inputs whose every line ends with a
\* line terminator and that do not hold the END_OF_TEXT byte.
C1_RoundTripOfTerminatedLines ==
    (/\ pc = "done"
     /\ input # <<>>
     /\ input[Len(input)] = NEW_LINE
     /\ \A i \in 1..Len(input) : input[i] # END_OF_TEXT)
        => Decoded(output_file.bytes) = input

====
